---------------------------- MODULE Spec2Model ----------------------------
(***************************************************************************)
(* Turn-processing core of the adventure engine.                           *)
(*                                                                         *)
(* The model follows backend/app/main.py (process_command), the            *)
(* dispatcher in backend/app/agents/adventure_narrator.py, the specialist  *)
(* agents (room_descriptor.py, inventory_manager.py) on their              *)
(* deterministic fallback paths, and the mechanics that main.py uses.      *)
(*                                                                         *)
(* Binding of names.  main.py imports CollapseManager, DamageSystem,       *)
(* should_trigger_collapse, initialize_game_mechanics, update_game_status  *)
(* and GameStatus (with member ACTIVE) from the mechanics module; the only *)
(* file that defines all of them is mechanics_old.py, so process_command   *)
(* is modelled against mechanics_old.py.  adventure_narrator.py imports    *)
(* SimpleAbilitySystem and GameStatus from mechanics.py and is modelled    *)
(* against that file.                                                      *)
(*                                                                         *)
(* The classifier behind IntentParser.parse_command is external: a turn's  *)
(* input is the ParsedCommand it returns (any of the commands in Commands) *)
(* or its failure, which process_command catches (the exception path).     *)
(* The call at main.py:298 is modelled as delivering that ParsedCommand.   *)
(*                                                                         *)
(* Specifications.  Spec: the turns of one session with the body of the    *)
(* last response kept in resp.  SpecGame: the same turns over a longer     *)
(* game with resp left alone.  SpecMerge: the loop that applies a          *)
(* response's deltas (main.py 317-320) on stored flag maps and deltas      *)
(* drawn from finite sets.                                                 *)
(* SpecServer: the HTTP and WebSocket pipelines of one game id,            *)
(* interleaved between their loads and saves.  SpecDispatch:               *)
(* handle_command on drawn game states, the specialist agents answering    *)
(* or raising.  SpecParse: IntentParser.parse_command on drawn texts and   *)
(* classifier outcomes.  SpecShared: two sessions picking items up         *)
(* through the one InventoryManager instance with the inventory agent      *)
(* available, interleaved at the await of the agent.                       *)
(* SpecSaves: the live sessions and the endpoints of the durable store     *)
(* (save, list, load, delete), each request taken as a whole.              *)
(***************************************************************************)
EXTENDS Integers, Sequences, FiniteSets, TLC

(***************************************************************************)
(* Bounds of the model                                                     *)
(***************************************************************************)
\* number of commands processed for the session, responses observed (Spec)
MaxTurns == 10

\* number of commands processed for the session, session observed (SpecGame)
MaxGameTurns == 12

(***************************************************************************)
(* Program constants                                                       *)
(***************************************************************************)
DEFAULT_TURN_LIMIT == 7

INITIAL_HEALTH == 100

NoneVal == "none_value"

\* GameStatus of mechanics_old.py
ACTIVE == "active"

VICTORY == "victory"

DEFEAT == "defeat"

\* DefeatReason of mechanics_old.py
DEATH == "death"

TRAPPED_BY_COLLAPSE == "trapped_by_collapse"

TRAPPED_IN_DEAD_END == "trapped_in_dead_end"

\* CommandType of command_models.py
CommandTypes ==
    {"movement", "examine", "pickup", "drop", "use", "talk", "attack",
     "look", "inventory", "ability", "unknown"}

Rooms ==
    {"cave_entrance", "hidden_alcove", "yawning_chasm", "crystal_treasury",
     "collapsed_passage"}

\* ROOM_CONNECTIONS: room -> (direction -> room)
ROOM_CONNECTIONS ==
    [r \in Rooms |->
        CASE r = "cave_entrance" ->
               [d \in {"north", "east"} |->
                   IF d = "north" THEN "hidden_alcove" ELSE "yawning_chasm"]
          [] r = "hidden_alcove" ->
               [d \in {"south"} |-> "cave_entrance"]
          [] r = "yawning_chasm" ->
               [d \in {"west", "east", "south"} |->
                   CASE d = "west" -> "cave_entrance"
                     [] d = "east" -> "crystal_treasury"
                     [] d = "south" -> "collapsed_passage"]
          [] r = "crystal_treasury" ->
               [d \in {"west"} |-> "yawning_chasm"]
          [] r = "collapsed_passage" ->
               [d \in {"north"} |-> "yawning_chasm"]]

\* connections of a location; ROOM_CONNECTIONS.get(from_location, {})
Connections(loc) ==
    IF loc \in Rooms THEN ROOM_CONNECTIONS[loc] ELSE [d \in {} |-> "x"]

\* items named by the "## Items:" line of each room's data file
RoomItems(loc) ==
    CASE loc = "cave_entrance" -> {"magical_rope"}
      [] loc = "hidden_alcove" -> {"climbing_gear"}
      [] loc = "crystal_treasury" -> {"crystal_of_echoing_depths"}
      [] OTHER -> {}

\* crossing_items of _handle_movement
CrossingItems == {"magical_rope", "grappling_hook", "climbing_gear"}

\* the empty flag map
EmptyFlags == [k \in {} |-> FALSE]

\* dict.get(key, default) on a record
DictGet(rec, key, default) ==
    IF key \in DOMAIN rec THEN rec[key] ELSE default

\* "x in list" on a sequence
InList(x, list) ==
    \E i \in 1..Len(list) : list[i] = x

(***************************************************************************)
(* mechanics_old.py : CollapseManager                                      *)
(***************************************************************************)
is_collapse_active(s) ==
    s.collapse_triggered

get_turns_since_collapse(s) ==
    s.turns_since_collapse

get_turn_limit(s) ==
    s.collapse_turn_limit

increment_collapse_turn(s) ==
    IF s.collapse_triggered
    THEN [s EXCEPT !.turns_since_collapse = s.turns_since_collapse + 1]
    ELSE s

trigger_collapse(s) ==
    [s EXCEPT !.collapse_triggered = TRUE,
              !.turns_since_collapse = 0,
              !.collapse_turn_limit = DEFAULT_TURN_LIMIT]

\* is_time_running_out with the limit itself still in time
is_time_running_out_Late(s) ==
    IF ~is_collapse_active(s)
    THEN FALSE
    ELSE get_turns_since_collapse(s) > get_turn_limit(s)

is_time_running_out(s) ==
    IF ~is_collapse_active(s)
    THEN FALSE
    ELSE get_turns_since_collapse(s) >= get_turn_limit(s)

\* get_urgency_level with the minor tier lasting one turn longer
get_urgency_level_LateModerate(s) ==
    IF ~is_collapse_active(s) THEN "none"
    ELSE LET turns == get_turns_since_collapse(s)
         IN  IF turns = 0 THEN "none"
             ELSE IF turns <= 3 THEN "minor"
             ELSE IF turns <= 4 THEN "moderate"
             ELSE IF turns <= 6 THEN "severe"
             ELSE "critical"

get_urgency_level(s) ==
    IF ~is_collapse_active(s) THEN "none"
    ELSE LET turns == get_turns_since_collapse(s)
         IN  IF turns = 0 THEN "none"
             ELSE IF turns <= 2 THEN "minor"
             ELSE IF turns <= 4 THEN "moderate"
             ELSE IF turns <= 6 THEN "severe"
             ELSE "critical"

(***************************************************************************)
(* mechanics_old.py : EnvironmentalState, DamageSystem                     *)
(* Probabilities and reductions are kept in percent.                       *)
(***************************************************************************)
Tiers == {"none", "minor", "moderate", "severe", "critical"}

\* ENVIRONMENTAL_EFFECTS[tier]["damage_chance"], in percent
damage_chance(tier) ==
    CASE tier = "none" -> 0
      [] tier = "minor" -> 10
      [] tier = "moderate" -> 30
      [] tier = "severe" -> 60
      [] tier = "critical" -> 90

\* ENVIRONMENTAL_EFFECTS[tier]["damage_amount"]
damage_amount(tier) ==
    CASE tier = "none" -> 0
      [] tier = "minor" -> 5
      [] tier = "moderate" -> 10
      [] tier = "severe" -> 20
      [] tier = "critical" -> 30

get_environmental_state(s) ==
    IF ~is_collapse_active(s) THEN "none" ELSE get_urgency_level(s)

get_damage_chance(s) ==
    damage_chance(get_environmental_state(s))

get_damage_amount(s) ==
    damage_amount(get_environmental_state(s))

\* CLASS_DAMAGE_REDUCTION.get(character_class, 0.0), in percent
CLASS_DAMAGE_REDUCTION(character_class) ==
    CASE character_class = "Warrior" -> 50
      [] character_class = "Wizard" -> 30
      [] character_class = "Rogue" -> 40
      [] OTHER -> 0

Max(a, b) ==
    IF a >= b THEN a ELSE b

\* int(base_damage * (1.0 - reduction)), floored at 0
calculate_damage(base_damage, character_class) ==
    Max(0, (base_damage * (100 - CLASS_DAMAGE_REDUCTION(character_class))) \div 100)

\* the rolls random.random() can produce, as percent points 0..99
Rolls == 0..99

\* whether some roll hits / some roll misses for a given chance
CanHit(chance) ==
    \E r \in Rolls : r < chance

CanMiss(chance) ==
    \E r \in Rolls : ~(r < chance)

\* apply_environmental_damage; hit says whether random.random() < damage_chance
\* apply_environmental_damage without the floor at 0
\* apply_environmental_damage hurting at the minor rate while no collapse is
\* active
apply_environmental_damage_Ambient(s, hit) ==
    IF ~is_collapse_active(s)
    THEN [s EXCEPT !.current_health = Max(0, s.current_health - damage_amount("minor"))]
    ELSE IF hit
         THEN LET character_class == DictGet(s.character, "class", "")
                  actual_damage == calculate_damage(get_damage_amount(s), character_class)
              IN  [s EXCEPT !.current_health = Max(0, s.current_health - actual_damage)]
         ELSE s

apply_environmental_damage_NoFloor(s, hit) ==
    IF ~is_collapse_active(s) \/ ~hit
    THEN s
    ELSE LET character_class == DictGet(s.character, "class", "")
             actual_damage == calculate_damage(get_damage_amount(s), character_class)
         IN  [s EXCEPT !.current_health = s.current_health - actual_damage]

apply_environmental_damage(s, hit) ==
    IF ~is_collapse_active(s) THEN s
    ELSE IF hit
         THEN LET character_class == DictGet(s.character, "class", "")
                  actual_damage == calculate_damage(get_damage_amount(s), character_class)
              IN  [s EXCEPT !.current_health = Max(0, s.current_health - actual_damage)]
         ELSE s

\* the dict apply_environmental_damage returns, without its narrative
apply_environmental_damage_result(s, hit) ==
    IF ~is_collapse_active(s) \/ ~hit
    THEN [damage_applied |-> 0, damage_occurred |-> FALSE]
    ELSE [damage_applied |->
              calculate_damage(get_damage_amount(s), DictGet(s.character, "class", "")),
          damage_occurred |-> TRUE]

\* the outcomes of the roll that are possible for the session
HitOutcomes(s) ==
    IF ~is_collapse_active(s) THEN {FALSE}
    ELSE {h \in BOOLEAN : IF h THEN CanHit(get_damage_chance(s))
                               ELSE CanMiss(get_damage_chance(s))}

(***************************************************************************)
(* mechanics_old.py : session initialisation, collapse trigger, outcome    *)
(***************************************************************************)
\* the words of the command text that should_trigger_collapse looks for are
\* carried by the command as take_text ("take"/"grab"/"get"/"pick up") and
\* crystal_text ("crystal")
\* should_trigger_collapse without the "not already triggered" test
should_trigger_collapse_Again(cmd, s) ==
    /\ cmd.take_text
    /\ cmd.crystal_text
    /\ s.location = "crystal_treasury"

should_trigger_collapse(cmd, s) ==
    /\ cmd.take_text
    /\ cmd.crystal_text
    /\ s.location = "crystal_treasury"
    /\ ~s.collapse_triggered

\* check_victory_condition asking for the escaped flag alone
check_victory_condition_EscapedOnly(s) ==
    DictGet(s, "escaped", FALSE)

check_victory_condition(s) ==
    LET has_crystal == InList("crystal_of_echoing_depths", s.inventory)
        at_entrance == s.location = "cave_entrance"
        escaped == DictGet(s, "escaped", FALSE)
    IN  (has_crystal /\ at_entrance) \/ escaped

\* <<is_defeated, reason>>
\* check_defeat_conditions with the general timer asked before the dead end
check_defeat_conditions_TimerFirst(s) ==
    IF s.current_health <= 0 THEN <<TRUE, DEATH>>
    ELSE IF is_time_running_out(s) THEN <<TRUE, TRAPPED_BY_COLLAPSE>>
    ELSE IF /\ s.location = "collapsed_passage"
            /\ is_collapse_active(s)
            /\ get_urgency_level(s) \in {"severe", "critical"}
         THEN <<TRUE, TRAPPED_IN_DEAD_END>>
    ELSE <<FALSE, "">>

check_defeat_conditions(s) ==
    IF s.current_health <= 0 THEN <<TRUE, DEATH>>
    ELSE IF /\ s.location = "collapsed_passage"
            /\ is_collapse_active(s)
            /\ get_urgency_level(s) \in {"severe", "critical"}
         THEN <<TRUE, TRAPPED_IN_DEAD_END>>
    ELSE IF is_time_running_out(s) THEN <<TRUE, TRAPPED_BY_COLLAPSE>>
    ELSE <<FALSE, "">>

update_game_status(s) ==
    IF check_victory_condition(s)
    THEN [s EXCEPT !.status = VICTORY]
    ELSE LET d == check_defeat_conditions(s)
         IN  IF d[1]
             THEN [s EXCEPT !.status = DEFEAT, !.defeat_reason = d[2]]
             ELSE [s EXCEPT !.status = ACTIVE]

\* the narrative update_game_status returns: "victory", "defeat" or ""
status_narrative(s) ==
    IF check_victory_condition(s) THEN "victory"
    ELSE IF check_defeat_conditions(s)[1] THEN "defeat"
    ELSE ""

(***************************************************************************)
(* Strings.  The command words and item names are drawn from finite sets;  *)
(* the substring tests and normalisations of the code are tabulated on     *)
(* them.                                                                   *)
(***************************************************************************)
\* targets a classification can carry
Targets ==
    {"rope", "magical rope", "magical_rope", "crystal",
     "crystal_of_echoing_depths", "lamp", "cave"}

\* name_utils.normalize_item_name: lower(), ' ' -> '_', '-' -> '_'
normalize_item_name(name) ==
    CASE name = "magical rope" -> "magical_rope"
      [] name = "Crystal of Echoing Depths" -> "crystal_of_echoing_depths"
      [] OTHER -> name

\* 'crystal' in str(x).lower()
MentionsCrystal(x) ==
    x \in {"crystal", "crystal_of_echoing_depths", "Crystal of Echoing Depths"}

\* 'cave' in target.lower()
MentionsCave(x) ==
    x \in {"cave"}

\* " and " in item_name or "," in item_name : none of the names is compound
IsCompound(name) ==
    FALSE

(***************************************************************************)
(* inventory_manager.py : InventoryManager (fallback validation path)      *)
(***************************************************************************)
\* item_aliases of pickup_item, as the list of names to check
names_to_check(normalized_input) ==
    CASE normalized_input = "rope" -> <<"rope", "rope", "magical_rope">>
      [] normalized_input = "crystal" ->
           <<"crystal", "crystal", "crystal_of_echoing_depths">>
      [] normalized_input = "gear" -> <<"gear", "gear", "climbing_gear">>
      [] OTHER -> <<normalized_input>>

\* rag_tools.find_items_in_location
find_items_in_location(location) ==
    RoomItems(location)

\* the available item matched by the first candidate name that matches
item_match(item_name, current_location) ==
    LET names == names_to_check(normalize_item_name(item_name))
        available == find_items_in_location(current_location)
        hits == {i \in 1..Len(names) :
                    \E a \in available : names[i] = normalize_item_name(a)}
    IN  IF hits = {} THEN NoneVal
        ELSE LET first == CHOOSE i \in hits : \A j \in hits : i <= j
             IN  CHOOSE a \in available : names[first] = normalize_item_name(a)

\* pickup_item without the check for an item that is already held
pickup_item_Again(item_name, current_inventory, current_location) ==
    IF IsCompound(item_name)
    THEN [success |-> FALSE, message |-> "one_at_a_time",
          inventory_update |-> current_inventory]
    ELSE LET m == item_match(item_name, current_location)
         IN  IF m = NoneVal
             THEN [success |-> FALSE, message |-> "dont_see",
                   inventory_update |-> current_inventory]
             ELSE [success |-> TRUE, message |-> "pick_up",
                   inventory_update |-> Append(current_inventory, m)]

pickup_item(item_name, current_inventory, current_location) ==
    IF IsCompound(item_name)
    THEN [success |-> FALSE, message |-> "one_at_a_time",
          inventory_update |-> current_inventory]
    ELSE LET m == item_match(item_name, current_location)
         IN  IF m = NoneVal
             THEN [success |-> FALSE, message |-> "dont_see",
                   inventory_update |-> current_inventory]
             ELSE IF InList(m, current_inventory)
             THEN [success |-> FALSE, message |-> "already_have",
                   inventory_update |-> current_inventory]
             ELSE [success |-> TRUE, message |-> "pick_up",
                   inventory_update |-> Append(current_inventory, m)]

drop_item(item_name, current_inventory) ==
    IF InList(item_name, current_inventory)
    THEN [success |-> TRUE, message |-> "drop",
          inventory_update |-> SelectSeq(current_inventory, LAMBDA x : x # item_name)]
    ELSE [success |-> FALSE, message |-> "dont_have",
          inventory_update |-> current_inventory]

\* normalize_item_name(inv_item) in normalized_input, on the names of the model
NameWithin(inner, outer) ==
    \/ inner = outer
    \/ inner = "crystal" /\ outer = "crystal_of_echoing_depths"
    \/ inner = "rope" /\ outer = "magical_rope"

use_item(item_name, current_inventory) ==
    LET normalized_input == normalize_item_name(item_name)
        matched == \E i \in 1..Len(current_inventory) :
                      NameWithin(normalize_item_name(current_inventory[i]),
                                 normalized_input)
    IN  IF ~matched
        THEN [success |-> FALSE, message |-> "dont_have",
              inventory_update |-> current_inventory]
        ELSE [success |-> TRUE, message |-> "use",
              inventory_update |-> current_inventory]

(***************************************************************************)
(* room_descriptor.py : RoomDescriptor.handle_movement                     *)
(***************************************************************************)
handle_movement_Stay(from_location, direction) ==
    LET connections == Connections(from_location)
    IN  IF direction \in DOMAIN connections
        THEN [success |-> TRUE, new_location |-> from_location,
              description |-> "move"]
        ELSE [success |-> FALSE, new_location |-> from_location,
              description |-> "blocked", blocked_reason |-> "no_exit"]

handle_movement(from_location, direction) ==
    LET connections == Connections(from_location)
    IN  IF direction \in DOMAIN connections
        THEN [success |-> TRUE, new_location |-> connections[direction],
              description |-> "move"]
        ELSE [success |-> FALSE, new_location |-> from_location,
              description |-> "blocked", blocked_reason |-> "no_exit"]

(***************************************************************************)
(* mechanics.py : SimpleAbilitySystem                                      *)
(***************************************************************************)
\* ABILITIES.get(character_class, {}): ability name -> effect
ABILITIES(character_class) ==
    CASE character_class = "Warrior" -> [a \in {"dash"} |-> "movement_boost"]
      [] character_class = "Wizard" -> [a \in {"illuminate"} |-> "light"]
      [] character_class = "Rogue" -> [a \in {"sneak"} |-> "stealth"]
      [] OTHER -> [a \in {} |-> "x"]

\* ability.lower() in command_lower, on the ability texts of the model
AbilityIn(ability, command_lower) ==
    ability = command_lower

\* parse_ability_command: the matched ability name, or "" when none
parse_ability_command(command, character_class) ==
    LET available == DOMAIN ABILITIES(character_class)
        found == {a \in available : AbilityIn(a, command)}
    IN  IF found = {} THEN "" ELSE CHOOSE a \in found : TRUE

\* use_ability: <<success, effects>>
use_ability(ability_name, character_class) ==
    IF ability_name \notin DOMAIN ABILITIES(character_class)
    THEN <<FALSE, [k \in {} |-> "x"]>>
    ELSE <<TRUE, [ability_used |-> ability_name,
                  effect_type |-> ABILITIES(character_class)[ability_name]]>>

(***************************************************************************)
(* adventure_narrator.py : AdventureNarrator                               *)
(***************************************************************************)
NoUpdates == [k \in {} |-> "x"]

\* GameResponse; kind stands for the narrative / metadata of the response
GameResponse(agent, kind, game_state_updates, success) ==
    [agent |-> agent, kind |-> kind,
     game_state_updates |-> game_state_updates, success |-> success]

EgressVerbs == {"leave", "escape", "exit", "flee"}

\* any('crystal' in str(item).lower() for item in inventory)
has_crystal(inventory) ==
    \E i \in 1..Len(inventory) : MentionsCrystal(inventory[i])

_handle_movement(command, game_state) ==
    LET current_location == DictGet(game_state, "location", "unknown")
        direction0 == IF command.direction # NoneVal THEN command.direction
                      ELSE "somewhere"
        contextual == \/ command.action \in {"cross", "traverse"}
                      \/ direction0 \in {"chasm", "bridge", "safely"}
        inventory == DictGet(game_state, "inventory", <<>>)
        has_equipment == \E item \in CrossingItems : InList(item, inventory)
        temp_flags == DictGet(game_state, "temp_flags", EmptyFlags)
        ability_used == DictGet(temp_flags, "ability_used_for_crossing", FALSE)
        current_side == DictGet(temp_flags, "chasm_east_side", FALSE)
        new_side == ~current_side
        direction == IF contextual /\ current_location = "cave_entrance" THEN "east"
                     ELSE IF contextual /\ current_location = "crystal_treasury"
                          THEN "west"
                     ELSE direction0
        movement_result == handle_movement(current_location, direction)
    IN  IF contextual /\ current_location = "yawning_chasm"
        THEN IF has_equipment \/ ability_used
             THEN GameResponse("AdventureNarrator", "cross_chasm",
                      [temp_flags |-> [chasm_east_side |-> new_side,
                                       ability_used_for_crossing |-> FALSE]],
                      TRUE)
             ELSE GameResponse("AdventureNarrator", "cross_chasm_refused",
                      NoUpdates, FALSE)
        ELSE IF movement_result.success
             THEN GameResponse("RoomDescriptor", "moved",
                      [location |-> movement_result.new_location], TRUE)
             ELSE GameResponse("RoomDescriptor", "blocked", NoUpdates, FALSE)

_handle_examination(command, game_state) ==
    GameResponse("RoomDescriptor", "examined", NoUpdates, TRUE)

\* the response built from an InventoryManager result by reading
\* result['narrative']; the results carry 'message', so the lookup raises
\* KeyError, which the handler catches and degrades
ResponseFromNarrative(result) ==
    IF "narrative" \in DOMAIN result
    THEN GameResponse("InventoryManager", result.narrative,
             [inventory |-> result.inventory_update], result.success)
    ELSE GameResponse("AdventureNarrator", "agent_error", NoUpdates, TRUE)

_handle_item_interaction(command, game_state) ==
    LET target == IF command.target # NoneVal THEN command.target ELSE "something"
        current_inventory == DictGet(game_state, "inventory", <<>>)
        current_location == DictGet(game_state, "location", "")
        collapse_triggered == DictGet(game_state, "collapse_triggered", FALSE)
    IN  IF command.command_type = "pickup" /\ MentionsCrystal(target)
        THEN IF current_location # "crystal_treasury"
             THEN ResponseFromNarrative(
                      pickup_item(target, current_inventory, current_location))
             ELSE IF has_crystal(current_inventory)
             THEN GameResponse("AdventureNarrator", "already_have_crystal",
                      NoUpdates, FALSE)
             ELSE IF collapse_triggered
             THEN ResponseFromNarrative(
                      pickup_item("Crystal of Echoing Depths", current_inventory,
                                  current_location))
             ELSE LET result == pickup_item("Crystal of Echoing Depths",
                                            current_inventory, current_location)
                  IN  GameResponse("AdventureNarrator", "take_crystal_trigger_collapse",
                          [inventory |-> result.inventory_update,
                           collapse_triggered |-> TRUE,
                           turns_since_collapse |-> 0],
                          TRUE)
        ELSE LET result ==
                     CASE command.command_type = "pickup" ->
                            pickup_item(target, current_inventory, current_location)
                       [] command.command_type = "drop" ->
                            drop_item(target, current_inventory)
                       [] command.command_type = "use" ->
                            use_item(target, current_inventory)
                       [] OTHER ->
                            [success |-> FALSE, message |-> "unknown_item_action",
                             inventory_update |-> current_inventory]
             IN  GameResponse("InventoryManager", result.message,
                     [inventory |-> result.inventory_update], result.success)

_handle_inventory(command, game_state) ==
    GameResponse("InventoryManager", "inventory", NoUpdates, TRUE)

_handle_ability(command, game_state) ==
    LET ability_name == DictGet(command.parameters, "ability_name", "")
        character == DictGet(game_state, "character", [k \in {} |-> "x"])
        character_class == DictGet(character, "character_class", "Warrior")
        current_location == DictGet(game_state, "location", "")
        actual_ability == parse_ability_command(ability_name, character_class)
        ability_result == use_ability(actual_ability, character_class)
        effects == ability_result[2]
    IN  IF actual_ability = ""
        THEN GameResponse("SimpleAbilitySystem", "not_an_ability", NoUpdates, FALSE)
        ELSE IF actual_ability = "dash" /\ current_location = "yawning_chasm"
        THEN GameResponse("SimpleAbilitySystem", "ability",
                 ("temp_flags" :> [ability_used_for_crossing |-> TRUE]) @@ effects,
                 ability_result[1])
        ELSE GameResponse("SimpleAbilitySystem", "ability", effects,
                 ability_result[1])

\* handle_command whose escape override lets the player out without the crystal
handle_command_OpenExit(parsed_command, game_state) ==
    LET current_location == DictGet(game_state, "location", "unknown")
        egress == \/ parsed_command.action \in EgressVerbs
                  \/ /\ parsed_command.target # NoneVal
                     /\ MentionsCave(parsed_command.target)
        t == parsed_command.command_type
    IN  IF egress /\ current_location = "cave_entrance"
        THEN GameResponse("AdventureNarrator", "attempted_escape",
                 [location |-> "outside"], TRUE)
        ELSE IF t = "movement" THEN _handle_movement(parsed_command, game_state)
        ELSE IF t \in {"examine", "look"}
             THEN _handle_examination(parsed_command, game_state)
        ELSE IF t \in {"pickup", "drop", "use"}
             THEN _handle_item_interaction(parsed_command, game_state)
        ELSE IF t = "inventory" THEN _handle_inventory(parsed_command, game_state)
        ELSE IF t = "ability" THEN _handle_ability(parsed_command, game_state)
        ELSE GameResponse("AdventureNarrator", "dont_understand", NoUpdates, FALSE)

\* handle_command answering an unknown command as a success
handle_command_UnknownSucceeds(parsed_command, game_state) ==
    LET current_location == DictGet(game_state, "location", "unknown")
        inventory == DictGet(game_state, "inventory", <<>>)
        egress == \/ parsed_command.action \in EgressVerbs
                  \/ /\ parsed_command.target # NoneVal
                     /\ MentionsCave(parsed_command.target)
        t == parsed_command.command_type
    IN  IF egress /\ current_location = "cave_entrance"
        THEN IF has_crystal(inventory)
             THEN GameResponse("AdventureNarrator", "victory",
                      [location |-> "outside", game_status |-> VICTORY], TRUE)
             ELSE GameResponse("AdventureNarrator", "attempted_escape",
                      NoUpdates, FALSE)
        ELSE IF t = "movement" THEN _handle_movement(parsed_command, game_state)
        ELSE IF t \in {"examine", "look"}
             THEN _handle_examination(parsed_command, game_state)
        ELSE IF t \in {"pickup", "drop", "use"}
             THEN _handle_item_interaction(parsed_command, game_state)
        ELSE IF t = "inventory" THEN _handle_inventory(parsed_command, game_state)
        ELSE IF t = "ability" THEN _handle_ability(parsed_command, game_state)
        ELSE GameResponse("AdventureNarrator", "dont_understand", NoUpdates, TRUE)

handle_command(parsed_command, game_state) ==
    LET current_location == DictGet(game_state, "location", "unknown")
        inventory == DictGet(game_state, "inventory", <<>>)
        egress == \/ parsed_command.action \in EgressVerbs
                  \/ /\ parsed_command.target # NoneVal
                     /\ MentionsCave(parsed_command.target)
        t == parsed_command.command_type
    IN  IF egress /\ current_location = "cave_entrance"
        THEN IF has_crystal(inventory)
             THEN GameResponse("AdventureNarrator", "victory",
                      [location |-> "outside", game_status |-> VICTORY], TRUE)
             ELSE GameResponse("AdventureNarrator", "attempted_escape",
                      NoUpdates, FALSE)
        ELSE IF t = "movement" THEN _handle_movement(parsed_command, game_state)
        ELSE IF t \in {"examine", "look"}
             THEN _handle_examination(parsed_command, game_state)
        ELSE IF t \in {"pickup", "drop", "use"}
             THEN _handle_item_interaction(parsed_command, game_state)
        ELSE IF t = "inventory" THEN _handle_inventory(parsed_command, game_state)
        ELSE IF t = "ability" THEN _handle_ability(parsed_command, game_state)
        ELSE GameResponse("AdventureNarrator", "dont_understand", NoUpdates, FALSE)

(***************************************************************************)
(* intent_parser.py : the ParsedCommand values the classifier may return.  *)
(* IntentParser.parse_command never sets parameters, so they are empty.    *)
(* take_text and crystal_text record whether the raw command text holds    *)
(* one of "take"/"grab"/"get"/"pick up", and "crystal".                    *)
(***************************************************************************)
ParsedCommand(command_type, action, target, direction, take_text, crystal_text) ==
    [command_type |-> command_type, action |-> action, target |-> target,
     direction |-> direction, parameters |-> [k \in {} |-> "x"],
     take_text |-> take_text, crystal_text |-> crystal_text]

Directions == {"north", "south", "east", "west"}

Commands ==
    {ParsedCommand("movement", "go", NoneVal, d, FALSE, FALSE) : d \in Directions}
    \cup {ParsedCommand("movement", "cross", "chasm", "east", FALSE, FALSE),
          ParsedCommand("look", "look", NoneVal, NoneVal, FALSE, FALSE),
          ParsedCommand("examine", "examine", "crystal", NoneVal, FALSE, TRUE),
          ParsedCommand("examine", "examine", "cave", NoneVal, FALSE, FALSE),
          ParsedCommand("examine", "get", "crystal", NoneVal, TRUE, TRUE),
          ParsedCommand("inventory", "inventory", NoneVal, NoneVal, FALSE, FALSE),
          ParsedCommand("ability", "ability", "dash", NoneVal, FALSE, FALSE),
          ParsedCommand("unknown", "xyzzy", NoneVal, NoneVal, FALSE, FALSE),
          ParsedCommand("use", "use", "rope", NoneVal, FALSE, FALSE)}
    \cup {ParsedCommand("pickup", "take", t, NoneVal, TRUE, MentionsCrystal(t)) :
             t \in {"rope", "crystal", "lamp"}}
    \cup {ParsedCommand("drop", "drop", t, NoneVal, FALSE, MentionsCrystal(t)) :
             t \in {"magical_rope", "crystal_of_echoing_depths"}}
    \cup {ParsedCommand("unknown", v, NoneVal, NoneVal, FALSE, FALSE) :
             v \in EgressVerbs}

CharacterClasses == {"warrior", "wizard", "rogue"}

\* the classes the sessions of Spec and SpecGame are started with.  The class
\* is stored under character["character_class"] in lower case; the damage
\* rule reads character["class"] and the abilities are keyed "Warrior",
\* "Wizard", "Rogue", so no step of a turn depends on which class it is.
StartClasses == {"warrior"}

(***************************************************************************)
(* State                                                                   *)
(***************************************************************************)
VARIABLES
    session,    \* the session stored under the game id (Redis)
    resp,       \* the body of the last response returned by process_command
    processed,  \* number of commands completed for the session
    inflight,   \* per request pipeline: where it is and its local session
    context,    \* the context object of the one InventoryManager instance
    db          \* the tables of the durable store (PostgreSQL)

vars == <<session, resp, processed, inflight, context, db>>

\* the tables after init_db: characters, game_sessions, discoveries, each the
\* rows in the order they were inserted
EmptyDatabase ==
    [characters |-> <<>>, game_sessions |-> <<>>, discoveries |-> <<>>]

\* InventoryContext(): the context the InventoryManager is constructed with
InventoryContext ==
    [current_inventory |-> <<>>, inventory_limit |-> 10,
     room_items |-> [k \in {} |-> {}]]

\* the pipelines that serve one game id: two HTTP requests and one WebSocket
\* connection
Pipelines == {"http1", "http2", "ws"}

HttpPipelines == {"http1", "http2"}

\* the place of a session in a pipeline that holds none
NoSession ==
    [game_id |-> NoneVal]

\* the place of a command in a pipeline that has dispatched none
NoCommand ==
    [command_type |-> NoneVal]

\* a pipeline that holds no session
Idle ==
    [pc |-> "idle", local |-> NoSession, command |-> NoCommand]

NoPipelines ==
    [p \in Pipelines |-> Idle]

(***************************************************************************)
(* main.py : create_session, process_command                               *)
(***************************************************************************)
\* the keys initialize_game_mechanics sets when they are missing
MechanicsDefaults ==
    [turn_count |-> 0,
     current_health |-> INITIAL_HEALTH,
     max_health |-> INITIAL_HEALTH,
     collapse_triggered |-> FALSE,
     turns_since_collapse |-> 0,
     collapse_turn_limit |-> DEFAULT_TURN_LIMIT,
     status |-> ACTIVE,
     defeat_reason |-> NoneVal]

\* session.setdefault(key, default) for every key of MechanicsDefaults
initialize_game_mechanics(s) ==
    s @@ MechanicsDefaults

create_session(character) ==
    initialize_game_mechanics(
        [character |-> character,
         location |-> "cave_entrance",
         inventory |-> <<>>,
         turn_count |-> 0,
         temp_flags |-> EmptyFlags])

\* the game_state dict process_command hands to handle_command
GameStateOf(s) ==
    [location |-> s.location,
     inventory |-> s.inventory,
     character |-> s.character,
     character_class |-> DictGet(s.character, "character_class", ""),
     turn_count |-> s.turn_count,
     collapse_triggered |-> DictGet(s, "collapse_triggered", FALSE),
     turns_since_collapse |-> DictGet(s, "turns_since_collapse", 0)]

\* for key, value in game_state_updates.items(): session[key] = value
ApplyUpdates(s, game_state_updates) ==
    game_state_updates @@ s

\* BeforeDispatch with the damage resolved before the collapse tick
BeforeDispatch_DamageBeforeTick(s, hit) ==
    LET s0 == initialize_game_mechanics(s)
        s1 == [s0 EXCEPT !.turn_count = s0.turn_count + 1]
        s2 == apply_environmental_damage(s1, hit)
    IN  IF is_collapse_active(s2) THEN increment_collapse_turn(s2) ELSE s2

\* BeforeDispatch without the turn increment
BeforeDispatch_NoIncrement(s, hit) ==
    LET s0 == initialize_game_mechanics(s)
        s2 == IF is_collapse_active(s0) THEN increment_collapse_turn(s0) ELSE s0
    IN  apply_environmental_damage(s2, hit)

\* BeforeDispatch counting the turns since the collapse on every turn
BeforeDispatch_AlwaysTick(s, hit) ==
    LET s0 == initialize_game_mechanics(s)
        s1 == [s0 EXCEPT !.turn_count = s0.turn_count + 1]
        s2 == [s1 EXCEPT !.turns_since_collapse = s1.turns_since_collapse + 1]
    IN  apply_environmental_damage(s2, hit)

\* the part of process_command that runs before the try block
BeforeDispatch(s, hit) ==
    LET s0 == initialize_game_mechanics(s)
        s1 == [s0 EXCEPT !.turn_count = s0.turn_count + 1]
        s2 == IF is_collapse_active(s1) THEN increment_collapse_turn(s1) ELSE s1
    IN  apply_environmental_damage(s2, hit)

\* no command has been processed yet
NoResponse ==
    [kind |-> "none", agent |-> "none", success |-> TRUE,
     command_type |-> NoneVal,
     egress_verb |-> FALSE, delta_keys |-> {}, delta_flags |-> {},
     turn |-> 0, dispatched_turn |-> 0,
     game_status |-> NoneVal, ended |-> ""]

Init ==
    /\ \E c \in StartClasses :
          session = create_session([character_class |-> c])
    /\ resp = NoResponse
    /\ processed = 0
    /\ inflight = NoPipelines
    /\ context = InventoryContext
    /\ db = EmptyDatabase

\* the keys of the temp_flags map carried by a delta
FlagsOf(game_state_updates) ==
    DOMAIN DictGet(game_state_updates, "temp_flags", EmptyFlags)

\* the body process_command returns on the normal path, with the turn it was
\* dispatched at, the kind the command was resolved to and whether its verb
\* was leave/escape/exit/flee
CommandResponse(command, game_state, game_response, judged, after) ==
    [kind |-> game_response.kind,
     agent |-> game_response.agent,
     success |-> game_response.success,
     command_type |-> command.command_type,
     egress_verb |-> command.action \in EgressVerbs,
     delta_keys |-> DOMAIN game_response.game_state_updates,
     delta_flags |-> FlagsOf(game_response.game_state_updates),
     turn |-> after.turn_count,
     dispatched_turn |-> game_state.turn_count,
     game_status |-> DictGet(after, "status", ACTIVE),
     ended |-> status_narrative(judged)]

\* the body process_command returns from its except branch
ErrorResponse(egress_verb, after) ==
    [kind |-> "error", agent |-> "system", success |-> FALSE,
     command_type |-> NoneVal,
     egress_verb |-> egress_verb,
     delta_keys |-> {}, delta_flags |-> {}, turn |-> after.turn_count,
     dispatched_turn |-> after.turn_count,
     game_status |-> NoneVal, ended |-> ""]

\* process_command on its normal path: the command is parsed and
\* dispatched, the deltas are applied, the outcome is evaluated and the
\* session is saved.  limit bounds the turns; record says whether the
\* response body is kept in resp.
ProcessCommandOf(limit, record) ==
    /\ session.turn_count < limit
    /\ \E command \in Commands, hit \in HitOutcomes(increment_collapse_turn(session)) :
       \E s3 \in {BeforeDispatch(session, hit)} :
       \E game_response \in {handle_command(command, GameStateOf(s3))} :
       \E s4 \in {ApplyUpdates(s3, game_response.game_state_updates)} :
       \E s5 \in {IF should_trigger_collapse(command, s4)
                  THEN trigger_collapse(s4) ELSE s4} :
       \E s6 \in {update_game_status(s5)} :
          /\ session' = s6
          /\ resp' = IF record
                     THEN CommandResponse(command, GameStateOf(s3), game_response, s5, s6)
                     ELSE resp
    /\ processed' = processed + 1
    /\ UNCHANGED <<inflight, context, db>>

\* process_command when parse_command or handle_command raises: the except
\* branch saves the session as it is and returns the error body
ProcessCommandErrorOf(limit, record) ==
    /\ session.turn_count < limit
    /\ \E egress_verb \in BOOLEAN, hit \in HitOutcomes(increment_collapse_turn(session)) :
       \E s3 \in {BeforeDispatch(session, hit)} :
          /\ session' = s3
          /\ resp' = IF record THEN ErrorResponse(egress_verb, s3) ELSE resp
    /\ processed' = processed + 1
    /\ UNCHANGED <<inflight, context, db>>

ProcessCommand ==
    ProcessCommandOf(MaxTurns, TRUE)

ProcessCommandError ==
    ProcessCommandErrorOf(MaxTurns, TRUE)

Next ==
    \/ ProcessCommand
    \/ ProcessCommandError

\* the turns of a session with the responses observed
Spec == Init /\ [][Next]_vars

PlayCommand ==
    ProcessCommandOf(MaxGameTurns, FALSE)

PlayCommandError ==
    ProcessCommandErrorOf(MaxGameTurns, FALSE)

NextGame ==
    \/ PlayCommand
    \/ PlayCommandError

\* the same turns over a longer game, the session alone observed
SpecGame == Init /\ [][NextGame]_vars

(***************************************************************************)
(* Applying deltas on their own: main.py lines 317-320 as a function of    *)
(* the stored session and the delta                                        *)
(***************************************************************************)
\* the keys handlers put into temp_flags
FlagKeys == {"chasm_east_side", "ability_used_for_crossing"}

\* the temp_flags maps over those keys, partial ones included
FlagMaps ==
    UNION {[keys -> BOOLEAN] : keys \in SUBSET FlagKeys}

\* deltas of the shapes the handlers build: a flag map, a new location, both
MergeDeltas ==
    {[temp_flags |-> f] : f \in FlagMaps}
    \cup {[location |-> r] : r \in Rooms}
    \cup {[temp_flags |-> f, location |-> r] : f \in FlagMaps, r \in Rooms}

InitMerge ==
    /\ \E c \in CharacterClasses, f \in FlagMaps :
          session = [create_session([character_class |-> c]) EXCEPT !.temp_flags = f]
    /\ resp = NoResponse
    /\ processed = 0
    /\ inflight = NoPipelines
    /\ context = InventoryContext
    /\ db = EmptyDatabase

\* the loop that applies game_state_updates to the session
ApplyDelta ==
    /\ resp = NoResponse
    /\ \E game_state_updates \in MergeDeltas :
          /\ session' = ApplyUpdates(session, game_state_updates)
          /\ resp' = [resp EXCEPT !.kind = "applied",
                                  !.delta_keys = DOMAIN game_state_updates,
                                  !.delta_flags = FlagsOf(game_state_updates)]
    /\ UNCHANGED <<processed, inflight, context, db>>

NextMerge ==
    ApplyDelta

SpecMerge == InitMerge /\ [][NextMerge]_vars

(***************************************************************************)
(* main.py : the request pipelines of one game id.  process_command loads  *)
(* the session (get_session), works on its copy and stores it              *)
(* (save_session); websocket_game_endpoint loads the session when the      *)
(* connection opens, keeps that copy for every command of the connection   *)
(* and stores it after each.  Both await between load and store, and       *)
(* nothing orders the pipelines of one game id.                            *)
(***************************************************************************)
\* number of commands received for the game id (SpecServer)
MaxServerTurns == 4

\* process_command from the loaded session to the session it saves
process_command(s, command, hit) ==
    LET s3 == BeforeDispatch(s, hit)
        game_response == handle_command(command, GameStateOf(s3))
        s4 == ApplyUpdates(s3, game_response.game_state_updates)
        s5 == IF should_trigger_collapse(command, s4)
              THEN trigger_collapse(s4) ELSE s4
    IN  update_game_status(s5)

\* the game_state dict websocket_game_endpoint hands to handle_command
GameStateOfWs(s) ==
    [location |-> s.location,
     inventory |-> s.inventory,
     character |-> s.character,
     character_class |-> DictGet(s.character, "character_class", ""),
     turn_count |-> s.turn_count]

\* one command of websocket_game_endpoint, from its copy of the session to
\* the session it saves
websocket_command(s, command) ==
    LET s1 == [s EXCEPT !.turn_count = s.turn_count + 1]
        game_response == handle_command(command, GameStateOfWs(s1))
    IN  ApplyUpdates(s1, game_response.game_state_updates)

\* commands received so far: completed, or loaded by process_command
Received ==
    processed + Cardinality({p \in HttpPipelines : inflight[p].pc = "loaded"})

\* process_command: get_session
HttpLoad(p) ==
    /\ inflight[p].pc = "idle"
    /\ Received < MaxServerTurns
    /\ inflight' = [inflight EXCEPT ![p] = [Idle EXCEPT !.pc = "loaded",
                                                          !.local = session]]
    /\ UNCHANGED <<session, resp, processed, context, db>>

\* process_command from the loaded copy to save_session, normal path
HttpSave(p) ==
    /\ inflight[p].pc = "loaded"
    /\ \E command \in Commands,
          hit \in HitOutcomes(increment_collapse_turn(inflight[p].local)) :
          session' = process_command(inflight[p].local, command, hit)
    /\ inflight' = [inflight EXCEPT ![p] = Idle]
    /\ processed' = processed + 1
    /\ UNCHANGED <<resp, context, db>>

\* process_command from the loaded copy to save_session, except branch
HttpSaveError(p) ==
    /\ inflight[p].pc = "loaded"
    /\ \E hit \in HitOutcomes(increment_collapse_turn(inflight[p].local)) :
          session' = BeforeDispatch(inflight[p].local, hit)
    /\ inflight' = [inflight EXCEPT ![p] = Idle]
    /\ processed' = processed + 1
    /\ UNCHANGED <<resp, context, db>>

\* websocket_game_endpoint: accept and get_session
WsConnect ==
    /\ inflight["ws"].pc = "idle"
    /\ inflight' = [inflight EXCEPT !["ws"] = [Idle EXCEPT !.pc = "open",
                                                             !.local = session]]
    /\ UNCHANGED <<session, resp, processed, context, db>>

\* websocket_game_endpoint: one command received, dispatched and saved
WsCommand ==
    /\ inflight["ws"].pc = "open"
    /\ Received < MaxServerTurns
    /\ \E command \in Commands :
       \E s \in {websocket_command(inflight["ws"].local, command)} :
          /\ session' = s
          /\ inflight' = [inflight EXCEPT !["ws"].local = s,
                                          !["ws"].command = command]
    /\ processed' = processed + 1
    /\ UNCHANGED <<resp, context, db>>

\* websocket_game_endpoint: one command received whose parsing or dispatch
\* raises; the copy is saved with the turn counted
WsCommandError ==
    /\ inflight["ws"].pc = "open"
    /\ Received < MaxServerTurns
    /\ \E s \in {[inflight["ws"].local EXCEPT !.turn_count = @ + 1]} :
          /\ session' = s
          /\ inflight' = [inflight EXCEPT !["ws"].local = s,
                                          !["ws"].command = NoCommand]
    /\ processed' = processed + 1
    /\ UNCHANGED <<resp, context, db>>

\* websocket_game_endpoint: WebSocketDisconnect
WsDisconnect ==
    /\ inflight["ws"].pc = "open"
    /\ inflight' = [inflight EXCEPT !["ws"] = Idle]
    /\ UNCHANGED <<session, resp, processed, context, db>>

NextServer ==
    \/ \E p \in HttpPipelines : HttpLoad(p)
    \/ \E p \in HttpPipelines : HttpSave(p)
    \/ \E p \in HttpPipelines : HttpSaveError(p)
    \/ WsConnect
    \/ WsCommand
    \/ WsCommandError
    \/ WsDisconnect

\* the pipelines of one game id, interleaved at their awaits
SpecServer == Init /\ [][NextServer]_vars

(***************************************************************************)
(* adventure_narrator.py : the dispatcher when the call to a specialist    *)
(* agent raises.  Each of _handle_movement, _handle_examination,           *)
(* _handle_item_interaction and _handle_inventory makes its agent call     *)
(* inside a try and builds a response of its own in the except branch.     *)
(* echo holds the parts of the command that the narrative repeats.         *)
(***************************************************************************)
\* the response of an except branch with the error detail taken away and
\* the action reported as failed
AgentError_Failed(echo, game_state_updates) ==
    [echo |-> echo, error_detail |-> FALSE]
        @@ GameResponse("AdventureNarrator", "agent_error", game_state_updates, FALSE)

\* the response of an except branch: the narrative ends in
\* "[Agent error: <exc>]" and success keeps its default
AgentError(echo, game_state_updates) ==
    [echo |-> echo, error_detail |-> TRUE]
        @@ GameResponse("AdventureNarrator", "agent_error", game_state_updates, TRUE)

\* whether handle_command reaches a call to a specialist agent
Delegates(parsed_command, game_state) ==
    LET current_location == DictGet(game_state, "location", "unknown")
        egress == \/ parsed_command.action \in EgressVerbs
                  \/ /\ parsed_command.target # NoneVal
                     /\ MentionsCave(parsed_command.target)
        t == parsed_command.command_type
        direction0 == IF parsed_command.direction # NoneVal
                      THEN parsed_command.direction ELSE "somewhere"
        contextual == \/ parsed_command.action \in {"cross", "traverse"}
                      \/ direction0 \in {"chasm", "bridge", "safely"}
        target == IF parsed_command.target # NoneVal
                  THEN parsed_command.target ELSE "something"
    IN  /\ ~(egress /\ current_location = "cave_entrance")
        /\ CASE t = "movement" ->
                  ~(contextual /\ current_location = "yawning_chasm")
             [] t \in {"examine", "look", "inventory"} -> TRUE
             [] t \in {"pickup", "drop", "use"} ->
                  ~(/\ t = "pickup"
                    /\ MentionsCrystal(target)
                    /\ current_location = "crystal_treasury"
                    /\ has_crystal(DictGet(game_state, "inventory", <<>>)))
             [] OTHER -> FALSE

\* _handle_movement when room_descriptor.handle_movement raises
_handle_movement_except(command, game_state) ==
    LET current_location == DictGet(game_state, "location", "unknown")
        direction0 == IF command.direction # NoneVal THEN command.direction
                      ELSE "somewhere"
        contextual == \/ command.action \in {"cross", "traverse"}
                      \/ direction0 \in {"chasm", "bridge", "safely"}
        direction == IF contextual /\ current_location = "cave_entrance" THEN "east"
                     ELSE IF contextual /\ current_location = "crystal_treasury"
                          THEN "west"
                     ELSE direction0
    IN  AgentError({direction, current_location},
                   [location |-> <<current_location, "_", direction>>])

\* _handle_examination when the room descriptor raises
_handle_examination_except(command, game_state) ==
    LET target == IF command.target # NoneVal THEN command.target ELSE "around"
    IN  AgentError({target}, NoUpdates)

\* _handle_item_interaction when the inventory manager raises
_handle_item_interaction_except(command, game_state) ==
    LET target == IF command.target # NoneVal THEN command.target ELSE "something"
    IN  AgentError({command.action, target}, NoUpdates)

\* _handle_inventory when get_inventory_summary raises
_handle_inventory_except(command, game_state) ==
    AgentError({}, NoUpdates)

\* handle_command when the specialist agent it calls raises
handle_command_except(parsed_command, game_state) ==
    LET t == parsed_command.command_type
    IN  IF ~Delegates(parsed_command, game_state)
        THEN handle_command(parsed_command, game_state)
        ELSE IF t = "movement"
             THEN _handle_movement_except(parsed_command, game_state)
        ELSE IF t \in {"examine", "look"}
             THEN _handle_examination_except(parsed_command, game_state)
        ELSE IF t \in {"pickup", "drop", "use"}
             THEN _handle_item_interaction_except(parsed_command, game_state)
        ELSE _handle_inventory_except(parsed_command, game_state)

\* the inventories a dispatched game state is drawn with
DispatchInventories ==
    {<<>>, <<"magical_rope">>, <<"crystal_of_echoing_depths">>,
     <<"magical_rope", "crystal_of_echoing_depths">>}

InitDispatch ==
    /\ \E c \in StartClasses, location \in Rooms,
          inventory \in DispatchInventories, collapse_triggered \in BOOLEAN :
          session = [create_session([character_class |-> c])
                        EXCEPT !.location = location,
                               !.inventory = inventory,
                               !.collapse_triggered = collapse_triggered]
    /\ resp = NoResponse
    /\ processed = 0
    /\ inflight = NoPipelines
    /\ context = InventoryContext
    /\ db = EmptyDatabase

\* what is kept of a GameResponse: the command, the response's fields and
\* whether a call to a specialist agent raised while it was built
DispatchResponse(command, game_response, delegate_raised) ==
    [command |-> command,
     delegate_raised |-> delegate_raised,
     echo |-> DictGet(game_response, "echo", {}),
     error_detail |-> DictGet(game_response, "error_detail", FALSE),
     new_location |-> DictGet(game_response.game_state_updates, "location", NoneVal)]
        @@ [NoResponse EXCEPT !.kind = game_response.kind,
                              !.agent = game_response.agent,
                              !.success = game_response.success,
                              !.command_type = command.command_type,
                              !.delta_keys = DOMAIN game_response.game_state_updates]

\* handle_command on a game state, the agents answering
Dispatch ==
    /\ processed = 0
    /\ \E command \in Commands :
          resp' = DispatchResponse(command,
                      handle_command(command, GameStateOf(session)), FALSE)
    /\ processed' = 1
    /\ UNCHANGED <<session, inflight, context, db>>

\* handle_command on a game state, the agent that is called raising
DispatchRaising ==
    /\ processed = 0
    /\ \E command \in Commands :
          resp' = DispatchResponse(command,
                      handle_command_except(command, GameStateOf(session)),
                      Delegates(command, GameStateOf(session)))
    /\ processed' = 1
    /\ UNCHANGED <<session, inflight, context, db>>

NextDispatch ==
    \/ Dispatch
    \/ DispatchRaising

\* handle_command as a function of the command and the game state
SpecDispatch == InitDispatch /\ [][NextDispatch]_vars

(***************************************************************************)
(* intent_parser.py : IntentParser.parse_command as a function of the raw  *)
(* text and of what the classifier (agent.run) does with it.  Confidence   *)
(* is kept in percent.                                                     *)
(***************************************************************************)
\* the command texts a request may carry
RawCommands == {"", " ", "   ", "go north", " look ", "xyzzy"}

\* str.strip on those texts
Strip(raw_command) ==
    CASE raw_command \in {"", " ", "   "} -> ""
      [] raw_command = " look " -> "look"
      [] OTHER -> raw_command

\* the category strings the classifier may answer with
CategoryStrings == CommandTypes \cup {"MOVEMENT", "Examine", "dance", ""}

\* str.lower on those strings
Lower(x) ==
    CASE x = "MOVEMENT" -> "movement"
      [] x = "Examine" -> "examine"
      [] OTHER -> x

\* what agent.run does: it raises (timeout, output that fails validation)
\* or returns an IntentClassification
ClassifierOutcomes ==
    {[raises |-> TRUE]}
    \cup {[raises |-> FALSE, command_type |-> c, action |-> a, confidence |-> p] :
             c \in CategoryStrings, a \in {"go", "look"}, p \in {0, 50, 100}}

\* IntentParser.parse_command: the ParsedCommand returned, or the exception
\* that leaves the call; invoked says whether agent.run was called
parse_command(raw_command, classifier) ==
    IF raw_command = "" \/ Strip(raw_command) = ""
    THEN [raised |-> FALSE, invoked |-> FALSE,
          command_type |-> "unknown", action |-> "", confidence |-> 0]
    ELSE IF classifier.raises
    THEN [raised |-> TRUE, invoked |-> TRUE]
    ELSE [raised |-> FALSE, invoked |-> TRUE,
          command_type |-> IF Lower(classifier.command_type) \in CommandTypes
                           THEN Lower(classifier.command_type)
                           ELSE "unknown",
          action |-> classifier.action,
          confidence |-> classifier.confidence]

InitParse ==
    /\ \E c \in StartClasses : session = create_session([character_class |-> c])
    /\ \E raw_command \in RawCommands, classifier \in ClassifierOutcomes :
          resp = [kind |-> "none", raw_command |-> raw_command,
                  classifier |-> classifier]
    /\ processed = 0
    /\ inflight = NoPipelines
    /\ context = InventoryContext
    /\ db = EmptyDatabase

\* one call of parse_command
ParseCommand ==
    /\ resp.kind = "none"
    /\ resp' = [kind |-> "parsed", raw_command |-> resp.raw_command,
                classifier |-> resp.classifier,
                parsed |-> parse_command(resp.raw_command, resp.classifier)]
    /\ processed' = processed + 1
    /\ UNCHANGED <<session, inflight, context, db>>

NextParse ==
    ParseCommand

\* parse_command as a function of the text and the classifier's outcome
SpecParse == InitParse /\ [][NextParse]_vars

(***************************************************************************)
(* Two sessions served by the one InventoryManager instance, the inventory *)
(* agent available: pickup_item writes the instance's context, awaits the  *)
(* agent, and the agent's tools read the context while other requests run. *)
(***************************************************************************)
MaxSharedTurns == 2

GameIds == {"A", "B"}

\* where the sessions of SpecShared stand: the rooms that hold an item that
\* can be carried away, and the room between them
SharedLocations == {"cave_entrance", "hidden_alcove", "yawning_chasm"}

\* the pickup commands of SpecShared
SharedCommands ==
    {ParsedCommand("pickup", "take", t, NoneVal, TRUE, FALSE) :
        t \in {"rope", "gear"}}

\* a request that is not being served
SharedIdle == [item |-> NoneVal] @@ Idle

\* no tool of the agent has answered for the request
NoToolAnswer == [asked |-> FALSE, available |-> FALSE]

\* tool check_item_availability of the inventory agent
check_item_availability(deps, item_name, location) ==
    item_name \in DictGet(deps.room_items, location, {})

\* the ItemAction the agent returns for a pickup: it grants the item or
\* refuses it
ItemActions(item_name, current_inventory) ==
    {[success |-> TRUE, message |-> "agent_message",
      inventory_update |-> Append(current_inventory, item_name)],
     [success |-> FALSE, message |-> "agent_message",
      inventory_update |-> current_inventory]}

\* process_command for a pickup that is not of the crystal, from the result
\* pickup_item returned to the state that is saved
pickup_turn(s, command, result, hit) ==
    LET s3 == BeforeDispatch(s, hit)
        s4 == ApplyUpdates(s3, [inventory |-> result.inventory_update])
        s5 == IF should_trigger_collapse(command, s4)
              THEN trigger_collapse(s4) ELSE s4
    IN  update_game_status(s5)

InitShared ==
    /\ \E c \in StartClasses, location \in [GameIds -> SharedLocations] :
          session = [g \in GameIds |->
                        [create_session([character_class |-> c])
                            EXCEPT !.location = location[g]]]
    /\ resp = [g \in GameIds |-> NoToolAnswer]
    /\ processed = [g \in GameIds |-> 0]
    /\ inflight = [g \in GameIds |-> SharedIdle]
    /\ context = InventoryContext
    /\ db = EmptyDatabase

\* process_command up to the await of the agent in pickup_item: the session
\* is loaded, the context of the instance is written, the item is matched
PickupBegin(g) ==
    /\ inflight[g].pc = "idle"
    /\ processed[g] < MaxSharedTurns
    /\ \E command \in SharedCommands :
          LET s == session[g]
              m == item_match(command.target, s.location)
          IN  /\ m # NoneVal
              /\ context' = [context EXCEPT
                                !.current_inventory = s.inventory,
                                !.room_items = [k \in {s.location} |->
                                                  find_items_in_location(s.location)]]
              /\ inflight' = [inflight EXCEPT ![g] =
                                [pc |-> "agent", local |-> s,
                                 command |-> command, item |-> m]]
    /\ resp' = [resp EXCEPT ![g] = NoToolAnswer]
    /\ UNCHANGED <<session, processed, db>>

\* a whole turn whose pickup_item returns before the agent is called: the
\* item is not in the room
PickupNotHere(g) ==
    /\ inflight[g].pc = "idle"
    /\ processed[g] < MaxSharedTurns
    /\ \E command \in SharedCommands, hit \in BOOLEAN :
          LET s == session[g]
              result == pickup_item(command.target, s.inventory, s.location)
          IN  /\ item_match(command.target, s.location) = NoneVal
              /\ context' = [context EXCEPT !.current_inventory = s.inventory]
              /\ session' = [session EXCEPT ![g] =
                                pickup_turn(s, command, result, hit)]
    /\ processed' = [processed EXCEPT ![g] = @ + 1]
    /\ UNCHANGED <<resp, inflight, db>>

\* the agent, serving the request of g, calls check_item_availability with
\* the item and the location of its prompt
ToolCheckAvailability(g) ==
    /\ inflight[g].pc = "agent"
    /\ ~resp[g].asked
    /\ resp' = [resp EXCEPT ![g] =
                  [asked |-> TRUE,
                   available |-> check_item_availability(context,
                                     inflight[g].item, inflight[g].local.location)]]
    /\ UNCHANGED <<session, processed, inflight, context, db>>

\* the agent returns its ItemAction and process_command saves the session
PickupReturn(g) ==
    /\ inflight[g].pc = "agent"
    /\ \E result \in ItemActions(inflight[g].item, inflight[g].local.inventory),
          hit \in BOOLEAN :
          session' = [session EXCEPT ![g] =
                        pickup_turn(inflight[g].local, inflight[g].command,
                                    result, hit)]
    /\ processed' = [processed EXCEPT ![g] = @ + 1]
    /\ inflight' = [inflight EXCEPT ![g] = SharedIdle]
    /\ UNCHANGED <<resp, context, db>>

\* the agent raises and pickup_item falls back to its own validation
PickupFallback(g) ==
    /\ inflight[g].pc = "agent"
    /\ \E hit \in BOOLEAN :
          LET s == inflight[g].local
              result == pickup_item(inflight[g].command.target, s.inventory,
                                    s.location)
          IN  session' = [session EXCEPT ![g] =
                            pickup_turn(s, inflight[g].command, result, hit)]
    /\ processed' = [processed EXCEPT ![g] = @ + 1]
    /\ inflight' = [inflight EXCEPT ![g] = SharedIdle]
    /\ UNCHANGED <<resp, context, db>>

NextShared ==
    \E g \in GameIds :
        \/ PickupBegin(g)
        \/ PickupNotHere(g)
        \/ ToolCheckAvailability(g)
        \/ PickupReturn(g)
        \/ PickupFallback(g)

\* two sessions picking items up through the shared InventoryManager
SpecShared == InitShared /\ [][NextShared]_vars

(***************************************************************************)
(* main.py : the durable store.  save_game_to_database, list_saved_games,  *)
(* load_game_from_database and delete_saved_game on the tables of          *)
(* models/database.py, next to the live sessions of the session store.     *)
(* Each request runs in its own database session and is taken as a whole.  *)
(***************************************************************************)
MaxSaveRequests == 5

\* names a character is created with
CharacterNames == {"TestHero", "Other"}

\* session_name of a SaveGameRequest; NoneVal stands for its absence
SessionNames == {NoneVal, "Version 1", "Version 2"}

\* the command played between the requests to the durable store
SaveCommands ==
    {c \in Commands : c.action = "go" /\ c.direction = "east"}

\* create_session as start_game calls it: the session with its game id, the
\* character's name and the rooms discovered
started_session(game_id, name, character_class) ==
    [game_id |-> game_id, discovered |-> <<"cave_entrance">>]
        @@ create_session([name |-> name, character_class |-> character_class])

\* result.scalars().first() of a select on a table: the index of the first
\* row among those selected, 0 for None
first(selected) ==
    IF selected = {} THEN 0
    ELSE CHOOSE i \in selected : \A j \in selected : i <= j

\* select(DBGameSession).where(DBGameSession.id == game_id)
select_game_session(database, game_id) ==
    {i \in 1..Len(database.game_sessions) :
        database.game_sessions[i].id = game_id}

\* select(DBCharacter).where(DBCharacter.name == name)
select_character(database, name) ==
    {i \in 1..Len(database.characters) : database.characters[i].name = name}

select_discovery_None(discoveries, game_id, room_id) ==
    {}

\* select(Discovery).where(game_session_id == game_id, entity_id == room_id)
select_discovery(discoveries, game_id, room_id) ==
    {i \in 1..Len(discoveries) :
        /\ discoveries[i].game_session_id = game_id
        /\ discoveries[i].entity_id = room_id}

\* the loop over session["discovered"] of save_game_to_database: a Discovery
\* row is added for each room that has none yet
RECURSIVE save_discoveries(_, _, _, _)
save_discoveries(discoveries, game_id, discovered_rooms, turn_count) ==
    IF discovered_rooms = <<>> THEN discoveries
    ELSE LET room_id == Head(discovered_rooms)
             recorded == first(select_discovery(discoveries, game_id, room_id)) # 0
             next == IF recorded THEN discoveries
                     ELSE Append(discoveries,
                              [game_session_id |-> game_id,
                               discovery_type |-> "room",
                               entity_id |-> room_id,
                               turn_number |-> turn_count])
         IN  save_discoveries(next, game_id, Tail(discovered_rooms), turn_count)

\* the session name a save is stored under
session_name_of(requested) ==
    IF requested # NoneVal THEN requested ELSE "Adventure - date"

\* save_game_to_database after the session was found: the tables it commits
save_game_to_database(database, game_id, s, requested_name) ==
    LET character_data == s.character
        existing_char == first(select_character(database, character_data.name))
        character_id == IF existing_char # 0
                        THEN database.characters[existing_char].id
                        ELSE Len(database.characters) + 1
        characters == IF existing_char # 0 THEN database.characters
                      ELSE Append(database.characters,
                               [id |-> character_id,
                                name |-> character_data.name,
                                character_class |-> character_data.character_class])
        existing_session == first(select_game_session(database, game_id))
        session_name == session_name_of(requested_name)
        game_sessions ==
            IF existing_session # 0
            THEN [database.game_sessions EXCEPT ![existing_session] =
                     [@ EXCEPT !.current_location = DictGet(s, "location", "cave_entrance"),
                               !.inventory = DictGet(s, "inventory", <<>>),
                               !.turn_count = DictGet(s, "turn_count", 0),
                               !.session_name = session_name,
                               !.state_snapshot = s]]
            ELSE Append(database.game_sessions,
                     [id |-> game_id,
                      character_id |-> character_id,
                      current_location |-> DictGet(s, "location", "cave_entrance"),
                      inventory |-> DictGet(s, "inventory", <<>>),
                      turn_count |-> DictGet(s, "turn_count", 0),
                      session_name |-> session_name,
                      is_active |-> TRUE,
                      state_snapshot |-> s])
    IN  [characters |-> characters,
         game_sessions |-> game_sessions,
         discoveries |-> save_discoveries(database.discoveries, game_id,
                             DictGet(s, "discovered", <<>>),
                             DictGet(s, "turn_count", 0))]

\* the rows list_saved_games selects: the active game sessions joined with
\* their characters; the game ids of the saves it returns
list_saved_games(database) ==
    LET listed == SelectSeq(database.game_sessions,
                      LAMBDA row :
                          /\ row.is_active
                          /\ \E i \in 1..Len(database.characters) :
                                database.characters[i].id = row.character_id)
    IN  [i \in 1..Len(listed) |-> listed[i].id]

\* the row load_game_from_database selects: the game session of the id joined
\* with its character, 0 for none
select_saved_game(database, game_id) ==
    first({i \in select_game_session(database, game_id) :
              \E j \in 1..Len(database.characters) :
                 database.characters[j].id = database.game_sessions[i].character_id})

\* the session load_game_from_database writes to the session store
load_game_from_database(database, game_id) ==
    LET db_session == database.game_sessions[select_saved_game(database, game_id)]
        discoveries == SelectSeq(database.discoveries,
                           LAMBDA d : /\ d.game_session_id = game_id
                                      /\ d.discovery_type = "room")
    IN  [discovered |-> [i \in 1..Len(discoveries) |-> discoveries[i].entity_id]]
            @@ db_session.state_snapshot

delete_saved_game_Remove(database, game_id) ==
    [database EXCEPT
        !.game_sessions = SelectSeq(database.game_sessions,
                              LAMBDA row : row.id # game_id)]

\* delete_saved_game after the row was found: the tables it commits
delete_saved_game(database, game_id) ==
    [database EXCEPT
        !.game_sessions[first(select_game_session(database, game_id))].is_active = FALSE]

\* the body an endpoint of the durable store returns
SaveResponse(endpoint, game_id, result, saves) ==
    [endpoint |-> endpoint, game_id |-> game_id, result |-> result, saves |-> saves]

InitSaves ==
    /\ \E c \in StartClasses, started \in SUBSET GameIds,
          name \in [GameIds -> CharacterNames] :
          session = [g \in GameIds |->
                        IF g \in started THEN started_session(g, name[g], c)
                        ELSE NoSession]
    /\ resp = SaveResponse("none", NoneVal, "none", <<>>)
    /\ processed = 0
    /\ inflight = NoPipelines
    /\ context = InventoryContext
    /\ db = EmptyDatabase

\* POST /game/{game_id}/command on a live session
PlayTurn(g) ==
    /\ processed < MaxSaveRequests
    /\ session[g] # NoSession
    /\ \E command \in SaveCommands,
          hit \in HitOutcomes(increment_collapse_turn(session[g])) :
          session' = [session EXCEPT ![g] = process_command(session[g], command, hit)]
    /\ resp' = SaveResponse("command", g, "turn", <<>>)
    /\ processed' = processed + 1
    /\ UNCHANGED <<inflight, context, db>>

\* POST /game/{game_id}/save
SaveGame(g) ==
    /\ processed < MaxSaveRequests
    /\ \E requested_name \in SessionNames :
          IF session[g] = NoSession
          THEN /\ resp' = SaveResponse("save", g, "session_not_found", <<>>)
               /\ db' = db
          ELSE /\ resp' = SaveResponse("save", g, session_name_of(requested_name), <<>>)
               /\ db' = save_game_to_database(db, g, session[g], requested_name)
    /\ processed' = processed + 1
    /\ UNCHANGED <<session, inflight, context>>

\* GET /game/saves
ListSaves ==
    /\ processed < MaxSaveRequests
    /\ resp' = SaveResponse("list", NoneVal, "saves", list_saved_games(db))
    /\ processed' = processed + 1
    /\ UNCHANGED <<session, inflight, context, db>>

\* POST /game/{game_id}/load
LoadGame(g) ==
    /\ processed < MaxSaveRequests
    /\ IF select_saved_game(db, g) = 0
       THEN /\ resp' = SaveResponse("load", g, "save_not_found", <<>>)
            /\ session' = session
       ELSE /\ resp' = SaveResponse("load", g, "success", <<>>)
            /\ session' = [session EXCEPT ![g] = load_game_from_database(db, g)]
    /\ processed' = processed + 1
    /\ UNCHANGED <<inflight, context, db>>

\* DELETE /game/{game_id}/save
DeleteSave(g) ==
    /\ processed < MaxSaveRequests
    /\ IF first(select_game_session(db, g)) = 0
       THEN /\ resp' = SaveResponse("delete", g, "save_not_found", <<>>)
            /\ db' = db
       ELSE /\ resp' = SaveResponse("delete", g, "success", <<>>)
            /\ db' = delete_saved_game(db, g)
    /\ processed' = processed + 1
    /\ UNCHANGED <<session, inflight, context>>

NextSaves ==
    \/ ListSaves
    \/ \E g \in GameIds :
          \/ PlayTurn(g)
          \/ SaveGame(g)
          \/ LoadGame(g)
          \/ DeleteSave(g)

\* the live sessions and their saves in the durable store
SpecSaves == InitSaves /\ [][NextSaves]_vars

(***************************************************************************)
(* Properties                                                              *)
(***************************************************************************)
\* C1: after N processed commands of any kind (handled, not understood,
\* refused, or ending in the except branch) the stored turn_count is its
\* initial value 0 plus N, and the turn handed to the dispatcher is already
\* the incremented one.
C1_TurnCountIsCommandsProcessed ==
    /\ session.turn_count = processed
    /\ resp.kind # "none" =>
          /\ resp.dispatched_turn = processed
          /\ resp.turn = processed

\* five commands processed, the last through the except branch
C1_Witness ==
    /\ processed = 5
    /\ session.turn_count = 5
    /\ resp.kind = "error"

\* C2: once the status is Victory or Defeat no later turn gives it another
\* value.
C2_TerminalStatusWriteOnce ==
    [][session.status \in {VICTORY, DEFEAT} => session'.status = session.status]_vars

\* C3: once the status is Victory or Defeat no later turn changes the
\* location, the inventory or the health.
C3_NoChangeAfterTerminal ==
    [][session.status \in {VICTORY, DEFEAT} =>
          /\ session'.location = session.location
          /\ session'.inventory = session.inventory
          /\ session'.current_health = session.current_health]_vars

\* C4: a turn whose command is not a leave/escape/exit/flee action and that
\* ends with the player at cave_entrance holding the crystal does not end
\* with status Victory.
C4_VictoryNeedsEgress ==
    (/\ resp.kind \notin {"none", "error"}
     /\ ~resp.egress_verb
     /\ session.location = "cave_entrance"
     /\ has_crystal(session.inventory))
        => session.status # VICTORY

\* C5: from cave_entrance with the crystal in the inventory, a command whose
\* verb is leave, escape, exit or flee gets the victory response, and the
\* status stored and reported after the turn is Victory.
C5_EgressWithCrystalWins ==
    [][(/\ session.location = "cave_entrance"
        /\ has_crystal(session.inventory)
        /\ resp'.egress_verb
        /\ resp'.kind # "error")
          => /\ resp'.kind = "victory"
             /\ resp'.game_status = VICTORY
             /\ session'.status = VICTORY]_vars

\* C6 as stated: from cave_entrance without the crystal, a
\* leave/escape/exit/flee command returns success=false with no deltas, and
\* after the turn the status is in progress and the location cave_entrance.
C6_EgressWithoutCrystalStaysActive ==
    [][(/\ session.location = "cave_entrance"
        /\ ~has_crystal(session.inventory)
        /\ resp'.egress_verb)
          => /\ resp'.success = FALSE
             /\ resp'.delta_keys = {}
             /\ session'.location = "cave_entrance"
             /\ session'.status = ACTIVE]_vars

\* C6 amended: from cave_entrance without the crystal, a
\* leave/escape/exit/flee command returns success=false with no deltas; after
\* the turn the location is cave_entrance and the status is not Victory: it
\* is Defeat only if the collapse timer has reached its limit or the health
\* is 0 at the end of the turn, and outcome evaluation then makes it Defeat.
C6_EgressWithoutCrystalRefused ==
    [][(/\ session.location = "cave_entrance"
        /\ ~has_crystal(session.inventory)
        /\ resp'.egress_verb)
          => LET lost == \/ session'.current_health <= 0
                         \/ /\ session'.collapse_triggered
                            /\ session'.turns_since_collapse >= DEFAULT_TURN_LIMIT
             IN  /\ resp'.success = FALSE
                 /\ resp'.delta_keys = {}
                 /\ session'.location = "cave_entrance"
                 /\ session'.status \in {ACTIVE, DEFEAT}
                 /\ session'.status = DEFEAT => lost
                 /\ (resp'.kind # "error" /\ lost) => session'.status = DEFEAT]_vars

\* the exit is refused while the collapse is running and the game goes on
C6_Witness ==
    /\ resp.kind = "attempted_escape"
    /\ resp.egress_verb
    /\ ~resp.success
    /\ session.collapse_triggered
    /\ session.status = ACTIVE

\* C7: the turn that picks up the crystal with the collapse not yet triggered
\* leaves collapse_triggered true and turns_since_collapse 0; once the
\* collapse is triggered no turn clears it, resets turns_since_collapse to 0
\* or lowers it.
C7_CollapseTriggeredOnce ==
    [][/\ resp'.kind = "take_crystal_trigger_collapse" =>
             /\ ~session.collapse_triggered
             /\ session'.collapse_triggered
             /\ session'.turns_since_collapse = 0
       /\ session.collapse_triggered =>
             /\ session'.collapse_triggered
             /\ session'.turns_since_collapse >= session.turns_since_collapse
             /\ session'.turns_since_collapse # 0]_vars

\* the crystal is taken again, in the treasury, two turns into the collapse
C7_Witness ==
    /\ resp.kind = "already_have_crystal"
    /\ session.location = "crystal_treasury"
    /\ session.collapse_triggered
    /\ session.turns_since_collapse = 2

\* C8: with the collapse active the tier for t = turns_since_collapse is
\* none at 0, minor at 1..2, moderate at 3..4, severe at 5..6 and critical
\* from 7 on; the tier never goes down as t grows, and the damage chance and
\* the base damage never go down along none < minor < moderate < severe <
\* critical.
C8_TierTable ==
    LET t == session.turns_since_collapse
        rank == [x \in Tiers |->
                    CASE x = "none" -> 0
                      [] x = "minor" -> 1
                      [] x = "moderate" -> 2
                      [] x = "severe" -> 3
                      [] x = "critical" -> 4]
        tier_at(u) == get_urgency_level(
                          [session EXCEPT !.collapse_triggered = TRUE,
                                          !.turns_since_collapse = u])
    IN  /\ session.collapse_triggered =>
              /\ t = 0 => get_urgency_level(session) = "none"
              /\ t \in 1..2 => get_urgency_level(session) = "minor"
              /\ t \in 3..4 => get_urgency_level(session) = "moderate"
              /\ t \in 5..6 => get_urgency_level(session) = "severe"
              /\ t >= 7 => get_urgency_level(session) = "critical"
        /\ \A u \in 0..t : rank[tier_at(u)] <= rank[tier_at(t)]
        /\ \A a, b \in Tiers :
              rank[a] <= rank[b] =>
                 /\ damage_chance(a) <= damage_chance(b)
                 /\ damage_amount(a) <= damage_amount(b)

\* the collapse has run one turn past the limit
C8_Witness ==
    /\ session.collapse_triggered
    /\ session.turns_since_collapse = 8
    /\ get_urgency_level(session) = "critical"

\* C9: a turn adds exactly 1 to turns_since_collapse when the collapse was
\* triggered at its start and leaves it at 0 otherwise, the triggering turn
\* included; the health lost in the turn is nothing or the damage of the
\* tier reached after that increment.
C9_TickBeforeDamage ==
    [][LET tick == session'.turns_since_collapse - session.turns_since_collapse
           lost == session.current_health - session'.current_health
           due == calculate_damage(get_damage_amount(session'),
                                   DictGet(session.character, "class", ""))
       IN  /\ (tick = 1) <=> session.collapse_triggered
           /\ ~session.collapse_triggered =>
                 /\ session.turns_since_collapse = 0
                 /\ session'.turns_since_collapse = 0
           /\ lost \in {0, IF due <= session.current_health
                           THEN due ELSE session.current_health}]_vars

\* hit on the first turn of the collapse, whose tier before the tick is none
C9_Witness ==
    /\ session.collapse_triggered
    /\ session.turns_since_collapse = 1
    /\ session.current_health = INITIAL_HEALTH - damage_amount("minor")

\* C10: applying a delta keeps every stored temp_flags entry whose key the
\* delta's temp_flags does not carry.
C10_FlagsMergedKeyByKey ==
    [][\A k \in (DOMAIN session.temp_flags) \ resp'.delta_flags :
          /\ k \in DOMAIN session'.temp_flags
          /\ session'.temp_flags[k] = session.temp_flags[k]]_vars

\* C11: after a turn that was dispatched and evaluated, a session whose
\* collapse is active with turns_since_collapse at or past
\* collapse_turn_limit, that has not won, has health above 0 and is not at
\* collapsed_passage, has status Defeat with reason trapped_by_collapse; the
\* time has not run out in any session whose collapse is not triggered.
C11_TimerDefeat ==
    /\ ~is_collapse_active(session) => ~is_time_running_out(session)
    /\ (/\ resp.kind \notin {"none", "error"}
        /\ is_collapse_active(session)
        /\ get_turns_since_collapse(session) >= get_turn_limit(session)
        /\ ~check_victory_condition(session)
        /\ session.current_health > 0
        /\ session.location # "collapsed_passage")
       => /\ session.status = DEFEAT
          /\ DictGet(session, "defeat_reason", "") = TRAPPED_BY_COLLAPSE

\* the seventh turn of the collapse ends away from the dead end, alive
C11_Witness ==
    /\ resp.kind \notin {"none", "error"}
    /\ session.collapse_triggered
    /\ session.turns_since_collapse = DEFAULT_TURN_LIMIT
    /\ session.current_health > 0
    /\ session.location = "crystal_treasury"
    /\ session.status = DEFEAT
    /\ DictGet(session, "defeat_reason", "") = TRAPPED_BY_COLLAPSE

\* C12: when a turn answers an egress command from cave_entrance, crystal
\* held, with the victory response, and a defeat condition holds at the end
\* of that turn (health 0 or the turn limit reached), the status after the
\* turn is Victory.
C12_VictoryBeforeDefeat ==
    [][(/\ session.location = "cave_entrance"
        /\ has_crystal(session.inventory)
        /\ resp'.egress_verb
        /\ resp'.kind = "victory"
        /\ \/ session'.current_health <= 0
           \/ is_time_running_out(session'))
          => session'.status = VICTORY]_vars

\* C13: the defeat check of a session answers Death when health is 0 or
\* less, whatever the location and the timer; otherwise TrappedInDeadEnd at
\* collapsed_passage once the collapse has run 5 turns or more (tiers severe
\* and critical), the turn limit reached or not; otherwise TrappedByCollapse
\* when the collapse has run turn-limit turns; otherwise not defeated, the
\* dead end before the fifth turn of the collapse included.
C13_DefeatPriority ==
    LET s == session
        d == check_defeat_conditions(s)
        dead == s.current_health <= 0
        late == s.collapse_triggered /\ s.turns_since_collapse >= 5
        dead_end == s.location = "collapsed_passage" /\ late
        timed_out == /\ s.collapse_triggered
                     /\ s.turns_since_collapse >= s.collapse_turn_limit
    IN  /\ dead => d = <<TRUE, DEATH>>
        /\ (~dead /\ dead_end) => d = <<TRUE, TRAPPED_IN_DEAD_END>>
        /\ (~dead /\ ~dead_end /\ timed_out) => d = <<TRUE, TRAPPED_BY_COLLAPSE>>
        /\ (~dead /\ ~dead_end /\ ~timed_out) => d = <<FALSE, "">>
        /\ (~dead /\ s.location = "collapsed_passage" /\ ~late /\ ~timed_out)
              => ~d[1]

\* alive at the dead end with the turn limit reached, and the turn evaluated
C13_Witness ==
    /\ session.current_health > 0
    /\ session.location = "collapsed_passage"
    /\ session.collapse_triggered
    /\ session.turns_since_collapse >= session.collapse_turn_limit
    /\ session.status = DEFEAT
    /\ session.defeat_reason = TRAPPED_IN_DEAD_END

C15_TurnsSerialised ==
    /\ Cardinality({p \in Pipelines : inflight[p].pc \in {"loaded", "open"}}) <= 1
    /\ session.turn_count = processed

\* C16: a WebSocket command that starts from the stored session leaves the
\* persisted turn_count, location, inventory, collapse flag and counter,
\* health and status that process_command leaves for the same stored session
\* and the same command.
C16_StreamingSameState ==
    [][(/\ inflight["ws"].pc = "open"
        /\ inflight'["ws"].pc = "open"
        /\ inflight'["ws"] # inflight["ws"]
        /\ inflight'["ws"].command # NoCommand
        /\ inflight["ws"].local = session)
          => LET persisted(s) ==
                     <<s.turn_count, s.location, s.inventory,
                       s.collapse_triggered, s.turns_since_collapse,
                       s.current_health, s.status>>
             IN  \E hit \in HitOutcomes(increment_collapse_turn(session)) :
                    persisted(session')
                       = persisted(process_command(session,
                                       inflight'["ws"].command, hit))]_vars

\* C17: when the specialist agent called for a movement, examination, item
\* or inventory command raises, handle_command returns a response, from
\* AdventureNarrator, with success=true and a narrative that carries the
\* error detail and repeats the direction and location of a movement, the
\* target of an examination, the verb and target of an item command.
C17_HandlerFailureDegrades ==
    (resp.kind # "none" /\ resp.delegate_raised)
       => /\ resp.command_type \in
                {"movement", "examine", "look", "pickup", "drop", "use", "inventory"}
          /\ resp.kind = "agent_error"
          /\ resp.agent = "AdventureNarrator"
          /\ resp.success
          /\ resp.error_detail
          /\ resp.command_type = "movement" =>
                /\ session.location \in resp.echo
                /\ \/ resp.command.direction \in resp.echo
                   \/ resp.command.action \in {"cross", "traverse"}
          /\ resp.command_type \in {"examine", "look"} =>
                resp.echo = {IF resp.command.target # NoneVal
                             THEN resp.command.target ELSE "around"}
          /\ resp.command_type \in {"pickup", "drop", "use"} =>
                resp.echo = {resp.command.action, resp.command.target}

\* the inventory manager raises on a pickup
C17_Witness ==
    /\ resp.kind = "agent_error"
    /\ resp.delegate_raised
    /\ resp.command_type = "pickup"
    /\ resp.success
    /\ resp.delta_keys = {}

\* C18: parse_command never raises; for an empty or whitespace-only text it
\* returns kind unknown with an empty verb and confidence 0 without calling
\* the classifier; a category string that is no command type gives kind
\* unknown; a failed classifier call gives kind unknown, confidence 0 and the
\* text as the verb.
C18_ResolverTotal ==
    resp.kind = "parsed" =>
       LET blank == Strip(resp.raw_command) = ""
           parsed == resp.parsed
       IN  /\ ~parsed.raised
           /\ blank =>
                 /\ ~parsed.invoked
                 /\ parsed.command_type = "unknown"
                 /\ parsed.action = ""
                 /\ parsed.confidence = 0
           /\ (~blank /\ resp.classifier.raises) =>
                 /\ parsed.command_type = "unknown"
                 /\ parsed.action = resp.raw_command
                 /\ parsed.confidence = 0
           /\ (/\ ~blank
               /\ ~resp.classifier.raises
               /\ Lower(resp.classifier.command_type) \notin CommandTypes) =>
                 parsed.command_type = "unknown"

\* C19: in every stored session current_health is an integer from 0 to
\* max_health.
C19_HealthInRange ==
    /\ session.current_health \in Int
    /\ 0 <= session.current_health
    /\ session.current_health <= session.max_health

\* the hazard has taken the last of the health and the turn is judged
C19_Witness ==
    /\ session.current_health = 0
    /\ session.collapse_triggered
    /\ session.status = DEFEAT
    /\ session.defeat_reason = DEATH

\* C20: in a turn that starts with the collapse not triggered, the turn of
\* the crystal's pickup included, apply_environmental_damage returns
\* damage 0 with occurred=false and the session as it got it, whatever the
\* roll, and the turn leaves the health at its initial value.
C20_NoDamageBeforeCollapse ==
    [][~session.collapse_triggered
          => /\ session.current_health = INITIAL_HEALTH
             /\ session'.current_health = session.current_health
             /\ \A hit \in BOOLEAN :
                   LET s2 == [session EXCEPT !.turn_count = @ + 1]
                   IN  /\ apply_environmental_damage(s2, hit) = s2
                       /\ apply_environmental_damage_result(s2, hit)
                             = [damage_applied |-> 0, damage_occurred |-> FALSE]]_vars

\* the turn that picked the crystal up has ended
C20_Witness ==
    /\ session.collapse_triggered
    /\ session.turns_since_collapse = 0
    /\ InList("crystal_of_echoing_depths", session.inventory)
    /\ session.current_health = INITIAL_HEALTH

\* C21: when a turn's hazard damage leaves the health above 0, the health
\* lost is floor(base damage of the tier * (1 - mitigation)), the mitigation
\* being 50% for a session created as warrior, 30% as wizard, 40% as rogue
\* and 0% otherwise.
C21_DamageMitigatedByArchetype ==
    [][LET lost == session.current_health - session'.current_health
           archetype == session.character.character_class
           mitigation == CASE archetype = "warrior" -> 50
                           [] archetype = "wizard" -> 30
                           [] archetype = "rogue" -> 40
                           [] OTHER -> 0
           due == (get_damage_amount(session') * (100 - mitigation)) \div 100
       IN  (lost > 0 /\ session'.current_health > 0) => lost = due]_vars

\* C22: update_game_status on a stored session whose status is Victory or
\* Defeat leaves that status and returns the empty narrative.
C22_EvaluationIdempotent ==
    session.status \in {VICTORY, DEFEAT}
       => /\ update_game_status(session).status = session.status
          /\ status_narrative(session) = ""

\* C23: sessions are independent: a step that serves one session leaves the
\* stored state of every other session unchanged, and what the inventory
\* agent's tool answers for a request is what the request's own snapshot
\* gives (the matched item is among the items of the request's own room),
\* whatever the other session is doing.
C23_SessionsIndependent ==
    [][\A g \in GameIds :
          /\ (\A h \in GameIds \ {g} : inflight'[h] = inflight[h]
                                       /\ processed'[h] = processed[h]
                                       /\ resp'[h] = resp[h])
                => \A h \in GameIds \ {g} : session'[h] = session[h]
          /\ (inflight'[g].pc = "agent" /\ resp'[g].asked)
                => resp'[g].available =
                      (inflight'[g].item
                          \in find_items_in_location(inflight'[g].local.location))]_vars

\* C24: a turn that raises before its final write leaves the stored session
\* without any of that turn's mutations: whenever process_command answers
\* from its except branch, the stored session is the one the turn loaded.
C24_AbortedTurnLeavesStore ==
    [][(processed' = processed + 1 /\ resp'.kind = "error")
          => session' = session]_vars

\* C25: a movement command that names a direction is resolved against
\* ROOM_CONNECTIONS for the current location: where the location has an exit
\* in that direction the response is a success whose only delta is the
\* location of the connected room; where it has none the response is the
\* blocked one (success false, metadata blocked) and carries no delta, so the
\* location stays.
C25_MovementFollowsConnections ==
    (/\ resp.kind # "none"
     /\ ~resp.delegate_raised
     /\ resp.command_type = "movement"
     /\ resp.command.action \notin {"cross", "traverse"})
       => LET connections == Connections(session.location)
              direction == resp.command.direction
          IN  IF direction \in DOMAIN connections
              THEN /\ resp.success
                   /\ resp.kind = "moved"
                   /\ resp.delta_keys = {"location"}
                   /\ resp.new_location = connections[direction]
              ELSE /\ ~resp.success
                   /\ resp.kind = "blocked"
                   /\ resp.delta_keys = {}
                   /\ resp.new_location = NoneVal

\* "go east" at the chasm has led to the treasury
C25_Witness ==
    /\ resp.kind = "moved"
    /\ resp.command.action = "go"
    /\ resp.command.direction = "east"
    /\ session.location = "yawning_chasm"
    /\ resp.new_location = "crystal_treasury"

\* C26: a cross/traverse command at yawning_chasm succeeds only if the
\* inventory holds magical_rope, grappling_hook or climbing_gear or the stored
\* flag ability_used_for_crossing is set; a successful one flips the stored
\* chasm_east_side and keeps the location; a refused one leaves location,
\* inventory and flags as they were.
C26_CrossNeedsEquipmentAndFlips ==
    [][(processed' = processed + 1 /\ resp'.command_type = "movement")
          => /\ resp'.kind = "cross_chasm"
                   => /\ \/ \E item \in CrossingItems : InList(item, session.inventory)
                         \/ DictGet(session.temp_flags, "ability_used_for_crossing", FALSE)
                      /\ resp'.success
                      /\ DictGet(session'.temp_flags, "chasm_east_side", FALSE)
                            = ~DictGet(session.temp_flags, "chasm_east_side", FALSE)
                      /\ session'.location = session.location
             /\ resp'.kind = "cross_chasm_refused"
                   => /\ ~resp'.success
                      /\ session'.location = session.location
                      /\ session'.inventory = session.inventory
                      /\ session'.temp_flags = session.temp_flags]_vars

C28_TwoCrossingsReturn ==
    [][(/\ processed' = processed + 1
        /\ resp.kind = "cross_chasm"
        /\ resp'.kind = "cross_chasm"
        /\ DictGet(session.temp_flags, "chasm_east_side", FALSE))
          => ~DictGet(session'.temp_flags, "chasm_east_side", FALSE)]_vars

\* C29: a pickup whose target matches no item of the current location, the
\* crystal outside the crystal_treasury included, is answered success=false
\* with the "You don't see any ... here." narrative, never by the degraded
\* success=true response of a caught exception.
C29_AbsentItemRefused ==
    (/\ resp.kind # "none"
     /\ ~resp.delegate_raised
     /\ resp.command_type = "pickup"
     /\ item_match(resp.command.target, session.location) = NoneVal)
       => /\ ~resp.success
          /\ resp.kind = "dont_see"
          /\ resp.agent = "InventoryManager"

\* C30: the collapse is triggered only by a successful crystal pickup:
\* collapse_triggered turns true only in a turn that added the crystal to the
\* inventory.
C30_CollapseOnlyOnCrystalPickup ==
    [][(~session.collapse_triggered /\ session'.collapse_triggered)
          => /\ ~has_crystal(session.inventory)
             /\ has_crystal(session'.inventory)]_vars

\* C31: the escape override comes before the routing by type: at
\* cave_entrance a command whose verb is leave/escape/exit/flee is answered by
\* the escape outcome (victory or the missing-crystal refusal) whatever its
\* type, and a command without such a verb, an examine or a pickup whose
\* target names the cave included, is answered by its own handler, never by
\* the escape outcome.
C31_EscapeOverrideOnlyForEgress ==
    [][(processed' = processed + 1 /\ resp'.kind # "error")
          => /\ (resp'.egress_verb /\ session.location = "cave_entrance")
                   => resp'.kind \in {"victory", "attempted_escape"}
             /\ ~resp'.egress_verb
                   => resp'.kind \notin {"victory", "attempted_escape"}]_vars

\* C32: saving is an idempotent upsert: however often the games are saved,
\* the durable store holds at most one GameSession row per game id and at
\* most one Discovery row per game id and room, and right after a successful
\* save of a game its one row holds the session just saved and the session
\* name of that save.
C32_SaveIsUpsert ==
    [][/\ \A g \in GameIds :
             /\ Cardinality(select_game_session(db', g)) <= 1
             /\ \A room_id \in Rooms :
                   Cardinality(select_discovery(db'.discoveries, g, room_id)) <= 1
       /\ (/\ processed' = processed + 1
           /\ resp'.endpoint = "save"
           /\ resp'.result # "session_not_found")
             => LET g == resp'.game_id
                    row == db'.game_sessions[first(select_game_session(db', g))]
                IN  /\ Cardinality(select_game_session(db', g)) = 1
                    /\ row.state_snapshot = session[g]
                    /\ row.turn_count = session[g].turn_count
                    /\ row.session_name = resp'.result
                    /\ \A i \in 1..Len(session[g].discovered) :
                          Cardinality(select_discovery(db'.discoveries, g,
                                          session[g].discovered[i])) = 1]_vars

\* a game saved at turn 0 has been saved again at turn 1 under another name
C32_Witness ==
    /\ resp.endpoint = "save"
    /\ resp.result = "Version 2"
    /\ session[resp.game_id].turn_count = 1
    /\ \E i \in 1..Len(db.discoveries) :
          /\ db.discoveries[i].game_session_id = resp.game_id
          /\ db.discoveries[i].turn_number = 0
    /\ db.game_sessions[first(select_game_session(db, resp.game_id))].turn_count = 1

\* C33: deleting a save is a soft delete: no step removes a GameSession row
\* or changes the game id of one; delete_saved_game on an existing save only
\* sets its is_active to false, and on a missing one it reports
\* save_not_found and changes nothing; a row that is not active stays so
\* through every step that is not a save, and list_saved_games never returns
\* the game id of a row that is not active.
C33_DeleteIsSoft ==
    [][/\ Len(db'.game_sessions) >= Len(db.game_sessions)
       /\ \A i \in 1..Len(db.game_sessions) :
             /\ db'.game_sessions[i].id = db.game_sessions[i].id
             /\ (~db.game_sessions[i].is_active /\ resp'.endpoint # "save")
                   => ~db'.game_sessions[i].is_active
       /\ (processed' = processed + 1 /\ resp'.endpoint = "delete")
             => LET found == first(select_game_session(db, resp'.game_id))
                IN  IF found = 0
                    THEN resp'.result = "save_not_found" /\ db' = db
                    ELSE /\ resp'.result = "success"
                         /\ db' = [db EXCEPT !.game_sessions[found].is_active = FALSE]
       /\ (processed' = processed + 1 /\ resp'.endpoint = "list")
             => \A i \in 1..Len(db.game_sessions) :
                   ~db.game_sessions[i].is_active
                      => ~InList(db.game_sessions[i].id, resp'.saves)]_vars

\* the saves are listed after one of two saved games was deleted
C33_Witness ==
    /\ resp.endpoint = "list"
    /\ Len(resp.saves) = 1
    /\ Len(db.game_sessions) = 2
    /\ \E i \in 1..2 : ~db.game_sessions[i].is_active

\* C34: a save that was deleted and not saved again cannot be loaded:
\* load_game_from_database for a game whose row is not active reports
\* save_not_found and leaves the live sessions as they are.
C34_DeletedSaveNotLoaded ==
    [][(/\ processed' = processed + 1
        /\ resp'.endpoint = "load"
        /\ \E i \in select_game_session(db, resp'.game_id) :
              ~db.game_sessions[i].is_active)
          => /\ resp'.result = "save_not_found"
             /\ session' = session]_vars

\* C35: after a successful save of a game, a save made after the game's
\* earlier save was deleted included, list_saved_games returns the game.
C35_SavedGameIsListed ==
    (resp.endpoint = "save" /\ resp.result # "session_not_found")
       => InList(resp.game_id, list_saved_games(db))

\* C36: the collapse flag is a latch and the counter counts only under it:
\* while collapse_triggered is false turns_since_collapse is 0, and no
\* processed command sets collapse_triggered back to false.
C36_CollapseLatch ==
    [][/\ ~session.collapse_triggered => session.turns_since_collapse = 0
       /\ ~session'.collapse_triggered => session'.turns_since_collapse = 0
       /\ session.collapse_triggered => session'.collapse_triggered]_vars

\* the collapse has lasted three turns
C36_Witness ==
    /\ session.collapse_triggered
    /\ session.turns_since_collapse = 3

\* C37: the location a turn leaves the session in is one of the five rooms of
\* ROOM_CONNECTIONS, or "outside" after a victorious egress: every location a
\* response sets, the responses of the degraded paths included, is one of
\* the five rooms, or "outside" in the victory response.
C37_LocationIsARoom ==
    (resp.kind # "none" /\ "location" \in resp.delta_keys)
       => \/ resp.new_location \in Rooms
          \/ resp.new_location = "outside" /\ resp.kind = "victory"

C39_ChasmGatesTreasury ==
    [][(session.location # "crystal_treasury"
           /\ session'.location = "crystal_treasury")
          => /\ session.location = "yawning_chasm"
             /\ DictGet(session.temp_flags, "chasm_east_side", FALSE)]_vars

=============================================================================
